---- MODULE Spec2Model ----
(***************************************************************************)
(* Model of checkit.py: process_dictionary(file_path, sort_by,             *)
(* remove_empty_duplicates, modify_original).                              *)
(*                                                                         *)
(* Strings are sequences of code points, so that str.lower() and the       *)
(* lexicographic comparison used by list.sort are computed, not assumed.   *)
(* A JSON value is a record [type, s, n]: type "str" carries s, type "int" *)
(* carries n.  An element of the parsed array is [isdict, items], items    *)
(* being the (key, value) pairs of the mapping in iteration order.         *)
(* The file is a sequence of chunks, one per f.write / json.dump call:     *)
(* <<"text", t>> or <<"json", element>>.                                   *)
(***************************************************************************)
EXTENDS Integers, Sequences, FiniteSets, TLC

MaxLen == 3
MaxRuns == 2

VARIABLES file, sort_by, remove_empty_duplicates, modify_original,
          pc, run, data, i, stats, unique_entries, duplicates_report,
          entries_with_value, entries_without_value, result, returned,
          file_before, appended_with, appended_without, prev_result

vars == <<file, sort_by, remove_empty_duplicates, modify_original,
          pc, run, data, i, stats, unique_entries, duplicates_report,
          entries_with_value, entries_without_value, result, returned,
          file_before, appended_with, appended_without, prev_result>>

config == <<sort_by, remove_empty_duplicates, modify_original>>

---------------------------------------------------------------------------
(* Input alphabet *)

StrVal(s) == [type |-> "str", s |-> s, n |-> 0]
IntVal(n) == [type |-> "int", s |-> <<>>, n |-> n]

\* keys "a" and "B": "B" sorts before "a" by code point, after it lowercased
Keys == {<<97>>, <<66>>}
\* values "", 0, "X" and "a"
Values == {StrVal(<<>>), IntVal(0), StrVal(<<88>>), StrVal(<<97>>)}

Entry(k, v) == [key |-> k, value |-> v]
Mapping(items) == [isdict |-> TRUE, items |-> items]
\* a JSON scalar where an object is expected
Scalar == [isdict |-> FALSE, items |-> <<>>]
\* {"a": 1, "B": 1}
TwoKeys == Mapping(<<Entry(<<97>>, IntVal(1)), Entry(<<66>>, IntVal(1))>>)

Elements == {Mapping(<<Entry(k, v)>>) : k \in Keys, v \in Values}
              \cup {Scalar, TwoKeys}

Documents == UNION {[1..n -> Elements] : n \in 0..MaxLen}

---------------------------------------------------------------------------
(* Pure helpers of the code *)

\* bool(value): empty string and zero are falsy
Truthy(v) == IF v.type = "str" THEN v.s # <<>> ELSE v.n # 0

\* str.lower() on ASCII
Lower(s) == [j \in 1..Len(s) |-> IF s[j] \in 65..90 THEN s[j] + 32 ELSE s[j]]

RECURSIVE Digits(_)
Digits(n) == IF n < 10 THEN <<48 + n>>
             ELSE Digits(n \div 10) \o <<48 + (n % 10)>>

\* str(value)
Str(v) == IF v.type = "str" THEN v.s ELSE Digits(v.n)

\* str.__lt__: lexicographic by code point
RECURSIVE StrLess(_, _)
StrLess(a, b) == IF b = <<>> THEN FALSE
                 ELSE IF a = <<>> THEN TRUE
                 ELSE IF a[1] # b[1] THEN a[1] < b[1]
                 ELSE StrLess(Tail(a), Tail(b))

sort_key(item, sb) == IF sb = "key" THEN Lower(item.key)
                      ELSE Lower(Str(item.value))

\* a sort that places x before the elements it ties with
SortedInsertBeforeTies(seq, x, sb) ==
    LET p == Cardinality({j \in 1..Len(seq) :
                             StrLess(sort_key(seq[j], sb), sort_key(x, sb))})
    IN SubSeq(seq, 1, p) \o <<x>> \o SubSeq(seq, p + 1, Len(seq))

\* one step of a stable sort: x goes after every element not greater than it
SortedInsert(seq, x, sb) ==
    LET p == Cardinality({j \in 1..Len(seq) :
                             ~StrLess(sort_key(x, sb), sort_key(seq[j], sb))})
    IN SubSeq(seq, 1, p) \o <<x>> \o SubSeq(seq, p + 1, Len(seq))

\* list.sort(key=sort_key)
RECURSIVE ListSort(_, _)
ListSort(seq, sb) ==
    IF seq = <<>> THEN <<>>
    ELSE SortedInsert(ListSort(SubSeq(seq, 1, Len(seq) - 1), sb),
                      seq[Len(seq)], sb)

\* the groups concatenated the other way round
MergeReversed(with, without) == without \o with

\* result = entries_with_value + entries_without_value
Merge(with, without) == with \o without

\* the shape test without the length check
ValidEntryAnyDict(e) == e.isdict

\* isinstance(entry, dict) and len(entry) == 1
ValidEntry(e) == e.isdict /\ Len(e.items) = 1

\* the removal test ignoring the option
IsRemovedDupAlways(rem, v) == ~Truthy(v)

\* remove_empty_duplicates and not value
IsRemovedDup(rem, v) == rem /\ ~Truthy(v)

\* the retained value never shields a key
KeepsFirstNever(ue, k) == FALSE

\* if unique_entries[key]: continue
KeepsFirst(ue, k) == Truthy(ue[k])

\* a duplicate never replaces the retained value
RetainFirstSeen(ue, k, v) == IF k \in DOMAIN ue THEN ue ELSE (k :> v) @@ ue

\* unique_entries[key] = value
Retain(ue, k, v) == (k :> v) @@ ue

\* duplicates_report.setdefault(key, []).append(value)
Report(dr, k, v) ==
    (k :> Append(IF k \in DOMAIN dr THEN dr[k] ELSE <<>>, v)) @@ dr

\* the write loop: "[\n", each entry followed by ",\n" or "\n", then "]"
RECURSIVE DumpEntries(_, _)
DumpEntries(objs, j) ==
    IF j > Len(objs) THEN <<>>
    ELSE <<<<"json", objs[j]>>,
           <<"text", IF j < Len(objs) THEN ",\n" ELSE "\n">>>>
         \o DumpEntries(objs, j + 1)

WriteText(objs) == <<<<"text", "[\n">>>> \o DumpEntries(objs, 1)
                     \o <<<<"text", "]">>>>

IsJson(c) == c[1] = "json"

\* json.load: an array when the text opens with a bracket
JsonLoad(text) ==
    IF text # <<>> /\ text[1] = <<"text", "[\n">>
    THEN LET objs == SelectSeq(text, IsJson)
         IN [islist |-> TRUE, elems |-> [j \in 1..Len(objs) |-> objs[j][2]]]
    ELSE [islist |-> FALSE, elems |-> <<>>]

\* json.dump(entry): a group entry {key: value} as a one-key object
AsObject(e) == Mapping(<<e>>)
Objects(seq) == [j \in 1..Len(seq) |-> AsObject(seq[j])]

NoStats == [total_entries |-> 0, duplicates_found |-> 0,
            duplicates_removed |-> 0, entries_with_value |-> 0,
            entries_without_value |-> 0]

---------------------------------------------------------------------------
(* State machine *)

Init ==
    /\ file \in {WriteText(d) : d \in Documents} \cup {<<<<"json", TwoKeys>>>>}
    /\ sort_by \in {"key", "value"}
    /\ remove_empty_duplicates \in BOOLEAN
    /\ modify_original \in BOOLEAN
    /\ pc = "start"
    /\ run = 1
    /\ data = [islist |-> TRUE, elems |-> <<>>]
    /\ i = 1
    /\ stats = NoStats
    /\ unique_entries = <<>>
    /\ duplicates_report = <<>>
    /\ entries_with_value = <<>>
    /\ entries_without_value = <<>>
    /\ result = <<>>
    /\ returned = FALSE
    /\ file_before = file
    /\ appended_with = <<>>
    /\ appended_without = <<>>
    /\ prev_result = <<>>

\* lines 19-38: load, reject a non-list, initialise statistics and locals
Load ==
    /\ pc = "start"
    /\ LET d == JsonLoad(file)
       IN /\ data' = d
          /\ IF ~d.islist
             THEN pc' = "raised" /\ stats' = stats
             ELSE /\ pc' = "loop"
                  /\ stats' = [NoStats EXCEPT !.total_entries = Len(d.elems)]
    /\ i' = 1
    /\ unique_entries' = <<>>
    /\ duplicates_report' = <<>>
    /\ entries_with_value' = <<>>
    /\ entries_without_value' = <<>>
    /\ UNCHANGED <<file, config, run, result, returned, file_before,
                   appended_with, appended_without, prev_result>>

\* lines 40-42: an element that is not a one-key mapping aborts the call
RaiseShape ==
    /\ pc = "loop"
    /\ i <= Len(data.elems)
    /\ ~ValidEntry(data.elems[i])
    /\ pc' = "raised"
    /\ UNCHANGED <<file, config, run, data, i, stats, unique_entries,
                   duplicates_report, entries_with_value,
                   entries_without_value, result, returned, file_before,
                   appended_with, appended_without, prev_result>>

\* lines 40-61: one iteration of the loop on a well-shaped element
Iterate ==
    /\ pc = "loop"
    /\ i <= Len(data.elems)
    /\ ValidEntry(data.elems[i])
    /\ LET key == data.elems[i].items[1].key
           value == data.elems[i].items[1].value
           seen == key \in DOMAIN unique_entries
           removed == seen /\ IsRemovedDup(remove_empty_duplicates, value)
           kept == seen /\ ~removed /\ KeepsFirst(unique_entries, key)
           skip == removed \/ kept
       IN /\ stats' = [stats EXCEPT
                         !.duplicates_found = @ + (IF seen THEN 1 ELSE 0),
                         !.duplicates_removed = @ + (IF removed THEN 1 ELSE 0)]
          /\ duplicates_report' = IF seen
                                  THEN Report(duplicates_report, key, value)
                                  ELSE duplicates_report
          /\ unique_entries' = IF skip THEN unique_entries
                               ELSE Retain(unique_entries, key, value)
          /\ entries_with_value' =
                IF ~skip /\ Truthy(value)
                THEN Append(entries_with_value, Entry(key, value))
                ELSE entries_with_value
          /\ entries_without_value' =
                IF ~skip /\ ~Truthy(value)
                THEN Append(entries_without_value, Entry(key, value))
                ELSE entries_without_value
    /\ i' = i + 1
    /\ UNCHANGED <<file, config, pc, run, data, result, returned, file_before,
                   appended_with, appended_without, prev_result>>

\* lines 63-96: sort both groups, merge, count, write the file, return
Finish ==
    /\ pc = "loop"
    /\ i > Len(data.elems)
    /\ LET with == ListSort(entries_with_value, sort_by)
           without == ListSort(entries_without_value, sort_by)
           res == Merge(with, without)
       IN /\ entries_with_value' = with
          /\ entries_without_value' = without
          /\ result' = res
          /\ stats' = [stats EXCEPT !.entries_with_value = Len(with),
                                    !.entries_without_value = Len(without)]
          /\ file' = IF modify_original THEN WriteText(Objects(res)) ELSE file
    /\ appended_with' = entries_with_value
    /\ appended_without' = entries_without_value
    /\ returned' = TRUE
    /\ pc' = "done"
    /\ UNCHANGED <<config, run, data, i, unique_entries, duplicates_report,
                   file_before, prev_result>>

\* lines 99-110: the driver is run again on the same file, same CONFIG
Reinvoke ==
    /\ pc = "done"
    /\ run < MaxRuns
    /\ run' = run + 1
    /\ pc' = "start"
    /\ prev_result' = result
    /\ file_before' = file
    /\ result' = <<>>
    /\ returned' = FALSE
    /\ stats' = NoStats
    /\ UNCHANGED <<file, config, data, i, unique_entries, duplicates_report,
                   entries_with_value, entries_without_value,
                   appended_with, appended_without>>

Next == Load \/ RaiseShape \/ Iterate \/ Finish \/ Reinvoke

Spec == Init /\ [][Next]_vars

---------------------------------------------------------------------------
(* Properties *)

KeyAt(j) == data.elems[j].items[1].key
ValueAt(j) == data.elems[j].items[1].value
NonFirst(j) == \E m \in 1..(j - 1) : KeyAt(m) = KeyAt(j)
FirstIndex(k) == CHOOSE j \in 1..Len(data.elems) :
                    KeyAt(j) = k /\ \A m \in 1..(j - 1) : KeyAt(m) # k
Count(seq, k) == Cardinality({j \in 1..Len(seq) : seq[j].key = k})
InPass == pc \in {"loop", "done"}
GroupsUnchanged == /\ entries_with_value' = entries_with_value
                   /\ entries_without_value' = entries_without_value

\* C1: no two entries of the returned Result share the same key.
KeyUniqueness ==
    pc = "done" =>
        \A a, b \in 1..Len(result) : a # b => result[a].key # result[b].key

\* C2: with remove_empty_duplicates=true, a second run on the Result written
\* by the first run returns the same Result and reports no duplicates.
Idempotence ==
    (pc = "done" /\ run > 1 /\ remove_empty_duplicates /\ modify_original) =>
        (result = prev_result /\ stats.duplicates_found = 0)

\* C3: entries_with_value + entries_without_value + duplicates_found equals
\* total_entries, the length of the input document.
CountConservation ==
    pc = "done" =>
        stats.entries_with_value + stats.entries_without_value
            + stats.duplicates_found = stats.total_entries

\* C4: only first occurrences are appended to the groups, so the groups hold
\* one entry per distinct key processed and every Result entry carries the
\* value of the first occurrence of its key.
FirstOccurrenceOnly ==
    InPass =>
        /\ Len(entries_with_value) + Len(entries_without_value)
              = Cardinality({KeyAt(j) : j \in 1..(i - 1)})
        /\ pc = "done" =>
              \A a \in 1..Len(result) :
                  result[a].value = ValueAt(FirstIndex(result[a].key))

\* C5: when the loaded value is not a list, or some element is not a one-key
\* mapping, the call never returns, produces no Result, stops at the first
\* offending element and leaves the file as it was before the call.
ShapeRejection ==
    LET d == JsonLoad(file_before)
        Bad(j) == ~(d.elems[j].isdict /\ Len(d.elems[j].items) = 1)
    IN (~d.islist \/ \E j \in 1..Len(d.elems) : Bad(j)) =>
          /\ pc # "done"
          /\ ~returned
          /\ result = <<>>
          /\ file = file_before
          /\ (pc \in {"loop", "raised"} /\ d.islist) =>
                \A j \in 1..(i - 1) : ~Bad(j)
          /\ (pc = "raised" /\ d.islist) => Bad(i)

ShapeRejectionWitness ==
    /\ pc = "raised"
    /\ modify_original
    /\ i > 1
    /\ entries_with_value # <<>>

\* C6: Result is the with-value group followed by the without-value group,
\* every with-value entry is truthy, every without-value entry is falsy, and
\* no falsy entry precedes a truthy entry in Result.
GroupOrdering ==
    pc = "done" =>
        /\ result = entries_with_value \o entries_without_value
        /\ \A a \in 1..Len(entries_with_value) :
              Truthy(entries_with_value[a].value)
        /\ \A a \in 1..Len(entries_without_value) :
              ~Truthy(entries_without_value[a].value)
        /\ \A a, b \in 1..Len(result) :
              a < b => ~(~Truthy(result[a].value) /\ Truthy(result[b].value))

GroupOrderingWitness ==
    /\ pc = "done"
    /\ entries_with_value # <<>>
    /\ entries_without_value # <<>>

\* C7: each group is non-decreasing by the case-insensitive sort key, and the
\* entries of a group that share a sort key keep the order in which they were
\* appended during the pass.
SortStability ==
    pc = "done" =>
        \A g \in {<<appended_with, entries_with_value>>,
                  <<appended_without, entries_without_value>>} :
            LET before == g[1]
                after == g[2]
                sk(x) == sort_key(x, sort_by)
            IN /\ Len(after) = Len(before)
               /\ \A a, b \in 1..Len(after) :
                     a < b => ~StrLess(sk(after[b]), sk(after[a]))
               /\ \A c \in 1..Len(before) :
                     LET Tie(x) == sk(x) = sk(before[c])
                     IN SelectSeq(after, Tie) = SelectSeq(before, Tie)

SortStabilityWitness ==
    /\ pc = "done"
    /\ \E g \in {<<appended_with, entries_with_value>>,
                 <<appended_without, entries_without_value>>} :
          /\ g[1] # g[2]
          /\ \E a, b \in 1..Len(g[2]) :
                /\ a < b
                /\ g[2][a] # g[2][b]
                /\ sort_key(g[2][a], sort_by) = sort_key(g[2][b], sort_by)

\* C8: duplicates_removed counts exactly the non-first occurrences with an
\* empty value when remove_empty_duplicates is true and is 0 otherwise, and an
\* iteration that counts an occurrence as removed changes neither the unique
\* index nor the groups.
RemovedAccounting ==
    /\ [](InPass =>
            stats.duplicates_removed =
                IF remove_empty_duplicates
                THEN Cardinality({j \in 1..(i - 1) :
                                     NonFirst(j) /\ ~Truthy(ValueAt(j))})
                ELSE 0)
    /\ [][(pc = "loop" /\ pc' = "loop"
             /\ stats'.duplicates_removed # stats.duplicates_removed) =>
            (unique_entries' = unique_entries /\ GroupsUnchanged)]_vars

RemovedAccountingWitness ==
    /\ pc = "done"
    /\ stats.duplicates_removed >= 1
    /\ stats.duplicates_found > stats.duplicates_removed

\* C9: once the retained value of a key is non-empty, an iteration on a later
\* entry for that key changes neither the unique index nor the groups.
FirstNonEmptyWins ==
    [][(/\ pc = "loop"
        /\ i <= Len(data.elems)
        /\ data.elems[i].isdict
        /\ Len(data.elems[i].items) = 1
        /\ KeyAt(i) \in DOMAIN unique_entries
        /\ Truthy(unique_entries[KeyAt(i)])) =>
          (unique_entries' = unique_entries /\ GroupsUnchanged)]_vars

FirstNonEmptyWinsWitness ==
    /\ pc = "loop"
    /\ \E j \in 1..(i - 1) :
          /\ NonFirst(j)
          /\ Truthy(ValueAt(j))
          /\ Truthy(ValueAt(FirstIndex(KeyAt(j))))
          /\ ValueAt(j) # ValueAt(FirstIndex(KeyAt(j)))
          /\ unique_entries[KeyAt(j)] = ValueAt(FirstIndex(KeyAt(j)))

\* C10: with remove_empty_duplicates=true each key is at most once in either
\* group, hence at most twice in Result; a key in both groups has its first
\* occurrence, empty, in the without-value group and its first later
\* non-empty occurrence in the with-value group.
RepeatedKeyBound ==
    (remove_empty_duplicates /\ InPass) =>
        \A k \in DOMAIN unique_entries :
            /\ Count(entries_with_value, k) <= 1
            /\ Count(entries_without_value, k) <= 1
            /\ pc = "done" => Count(result, k) <= 2
            /\ (Count(entries_with_value, k) = 1
                  /\ Count(entries_without_value, k) = 1) =>
                  LET f == FirstIndex(k)
                  IN /\ ~Truthy(ValueAt(f))
                     /\ \E a \in 1..Len(entries_without_value) :
                           entries_without_value[a] = Entry(k, ValueAt(f))
                     /\ \E l \in (f + 1)..(i - 1) :
                           /\ KeyAt(l) = k
                           /\ Truthy(ValueAt(l))
                           /\ \A m \in (f + 1)..(l - 1) :
                                 KeyAt(m) = k => ~Truthy(ValueAt(m))
                           /\ \E a \in 1..Len(entries_with_value) :
                                 entries_with_value[a] = Entry(k, ValueAt(l))

RepeatedKeyBoundWitness ==
    /\ pc = "done"
    /\ remove_empty_duplicates
    /\ \E k \in DOMAIN unique_entries : Count(result, k) = 2

====
